---- MODULE Spec2Model ----
(***************************************************************************)
(* A model of the task tracker of src/src/task_manager.py: the Task        *)
(* record, the TaskManager store with its whole-file JSON persistence, and *)
(* the queries over the store; and of the commands of src/src/cli.py, each *)
(* of which is one process that loads the store, makes one call and exits. *)
(*                                                                         *)
(* Python values.  A str is a sequence of one-character strings, so that   *)
(* str.strip() is computed and not assumed.  None is the one value that is *)
(* not a sequence of characters.  A JSON document is the value json.load   *)
(* returns: dicts are functions from keys to values, lists are sequences.  *)
(* A timestamp is the reading of the wall clock, formatted by isoformat.   *)
(***************************************************************************)
EXTENDS Integers, Sequences, FiniteSets, TLC

VARIABLES
    tasks,      \* TaskManager.tasks: the list of Task objects, in list order
    next_id,    \* TaskManager.next_id
    file,       \* the backing file at storage_path
    now,        \* the wall clock read by datetime.now()
    ret,        \* the last call made on the store: its name and its outcome
    wrote,      \* how many times the last call opened the backing file for writing
    nadds,      \* history: the number of add_task calls that returned a task
    procs       \* the invocations that run side by side on the one file

vars == <<tasks, next_id, file, now, ret, wrote, nadds, procs>>

----------------------------------------------------------------------------
(* Bounds of the model.                                                    *)

MaxAdds == 2        \* add_task calls that may succeed in one behaviour
MaxClock == 1       \* the wall clock runs from 0 to MaxClock
MaxLen == 3         \* the longest title a Task is constructed with

----------------------------------------------------------------------------
(* Python values.                                                          *)

None == <<"None">>

Whitespace == {" ", "\t"}

\* TaskPriority
LOW == <<"l", "o", "w">>
MEDIUM == <<"m", "e", "d", "i", "u", "m">>
HIGH == <<"h", "i", "g", "h">>
CRITICAL == <<"c", "r", "i", "t", "i", "c", "a", "l">>

\* TaskStatus
TODO == <<"t", "o", "d", "o">>
IN_PROGRESS == <<"i", "n", "_", "p", "r", "o", "g", "r", "e", "s", "s">>
COMPLETED == <<"c", "o", "m", "p", "l", "e", "t", "e", "d">>
CANCELLED == <<"c", "a", "n", "c", "e", "l", "l", "e", "d">>

\* str.strip(): leading and trailing whitespace removed
RECURSIVE lstrip(_)
lstrip(s) == IF s # <<>> /\ Head(s) \in Whitespace THEN lstrip(Tail(s)) ELSE s

RECURSIVE rstrip(_)
rstrip(s) ==
    IF s # <<>> /\ s[Len(s)] \in Whitespace
    THEN rstrip(SubSeq(s, 1, Len(s) - 1))
    ELSE s

strip(s) == rstrip(lstrip(s))

\* datetime.isoformat() of the clock reading n (a naive local time)
isoformat(n) == <<"T", ToString(n)>>

\* dict.get(key, default)
Get(d, key, default) == IF key \in DOMAIN d THEN d[key] ELSE default

----------------------------------------------------------------------------
(* Task                                                                    *)

\* What a call leaves behind: the exception it raised ("" when it returned)
\* and the value it returned.
Raise(e) == [exc |-> e, value |-> None]
Return(v) == [exc |-> "", value |-> v]

\* Task.__init__ testing only "not title": a whitespace title passes
Task_EmptyOnly(title, description, priority, status, due_date, task_id, clock) ==
    IF title = None \/ title = <<>>
    THEN Raise("ValueError")
    ELSE Return([title |-> strip(title),
                 description |-> strip(description),
                 priority |-> priority,
                 status |-> status,
                 due_date |-> due_date,
                 task_id |-> task_id,
                 created_at |-> isoformat(clock),
                 updated_at |-> isoformat(clock)])

\* Task.__init__ storing the description as passed
Task_RawDescription(title, description, priority, status, due_date, task_id, clock) ==
    IF title = None \/ title = <<>> \/ strip(title) = <<>>
    THEN Raise("ValueError")
    ELSE IF description = None
    THEN Raise("AttributeError")
    ELSE Return([title |-> strip(title),
                 description |-> description,
                 priority |-> priority,
                 status |-> status,
                 due_date |-> due_date,
                 task_id |-> task_id,
                 created_at |-> isoformat(clock),
                 updated_at |-> isoformat(clock)])

\* Task.__init__, with the clock reading at the time of the call
Task(title, description, priority, status, due_date, task_id, clock) ==
    IF title = None \/ title = <<>> \/ strip(title) = <<>>
    THEN Raise("ValueError")
    ELSE IF description = None
    THEN Raise("AttributeError")
    ELSE Return([title |-> strip(title),
                 description |-> strip(description),
                 priority |-> priority,
                 status |-> status,
                 due_date |-> due_date,
                 task_id |-> task_id,
                 created_at |-> isoformat(clock),
                 updated_at |-> isoformat(clock)])

\* Task.to_dict
to_dict(task) ==
    [task_id |-> task.task_id,
     title |-> task.title,
     description |-> task.description,
     priority |-> task.priority,
     status |-> task.status,
     due_date |-> task.due_date,
     created_at |-> task.created_at,
     updated_at |-> task.updated_at]

\* Task.from_dict
from_dict(data, clock) ==
    IF "title" \notin DOMAIN data
    THEN Raise("KeyError")
    ELSE LET r == Task(data["title"],
                       Get(data, "description", <<>>),
                       Get(data, "priority", MEDIUM),
                       Get(data, "status", TODO),
                       Get(data, "due_date", None),
                       Get(data, "task_id", None),
                       clock)
         IN  IF r.exc # ""
             THEN r
             ELSE Return([r.value EXCEPT
                            !.created_at = Get(data, "created_at", r.value.created_at),
                            !.updated_at = Get(data, "updated_at", r.value.updated_at)])

\* the truth value of an Optional[str]
Truthy(s) == s # None /\ s # <<>>

\* the clock readings a due date of the model can name
Times == 0..MaxClock

\* dateutil's parser.parse: the datetime a string denotes, naive for a local
\* time as isoformat writes it, aware when the string carries the offset "Z";
\* ValueError for a string that holds no date
parse(timestr) ==
    IF Len(timestr) = 2 /\ timestr[1] = "T"
          /\ \E n \in Times : timestr[2] = ToString(n)
    THEN Return([t |-> CHOOSE n \in Times : timestr[2] = ToString(n),
                 tzinfo |-> FALSE])
    ELSE IF Len(timestr) = 3 /\ timestr[1] = "T" /\ timestr[3] = "Z"
          /\ \E n \in Times : timestr[2] = ToString(n)
    THEN Return([t |-> CHOOSE n \in Times : timestr[2] = ToString(n),
                 tzinfo |-> TRUE])
    ELSE Raise("ValueError")

\* due < datetime.now(): datetime.now() is naive, and the comparison of an
\* aware datetime with a naive one raises TypeError
Before(due, clock) ==
    IF due.tzinfo THEN Raise("TypeError") ELSE Return(due.t < clock)

\* Task.is_overdue
is_overdue(task, clock) ==
    IF ~Truthy(task.due_date)
    THEN FALSE
    ELSE LET due == parse(task.due_date)
         IN  IF due.exc \in {"ValueError", "TypeError"}
             THEN FALSE
             ELSE IF Before(due.value, clock).exc \in {"ValueError", "TypeError"}
             THEN FALSE
             ELSE Before(due.value, clock).value /\ task.status # COMPLETED

----------------------------------------------------------------------------
(* The backing file                                                        *)

\* no file at storage_path
Absent == [exists |-> FALSE, wellformed |-> FALSE, data |-> <<>>]

\* a file whose text is not a JSON document
Garbage == [exists |-> TRUE, wellformed |-> FALSE, data |-> <<>>]

\* a file holding the JSON document data
Json(data) == [exists |-> TRUE, wellformed |-> TRUE, data |-> data]

\* TaskManager._save_tasks: the file it leaves
_save_tasks(ts, nid) ==
    Json([tasks |-> [i \in 1..Len(ts) |-> to_dict(ts[i])],
          next_id |-> nid])

\* the first exception the list comprehension of _load_tasks raises, "" if none
RECURSIVE FirstRaise(_, _)
FirstRaise(dicts, clock) ==
    IF dicts = <<>>
    THEN ""
    ELSE IF from_dict(Head(dicts), clock).exc # ""
    THEN from_dict(Head(dicts), clock).exc
    ELSE FirstRaise(Tail(dicts), clock)

\* __init__ falling back to an empty store when the file does not parse
TaskManager_Fallback(f, clock) ==
    IF ~f.exists \/ ~f.wellformed
    THEN [exc |-> "", tasks |-> <<>>, next_id |-> 1]
    ELSE IF "tasks" \notin DOMAIN f.data
    THEN [exc |-> "KeyError", tasks |-> <<>>, next_id |-> 1]
    ELSE IF FirstRaise(f.data["tasks"], clock) # ""
    THEN [exc |-> FirstRaise(f.data["tasks"], clock), tasks |-> <<>>, next_id |-> 1]
    ELSE [exc |-> "",
          tasks |-> [i \in 1..Len(f.data["tasks"]) |->
                        from_dict(f.data["tasks"][i], clock).value],
          next_id |-> Get(f.data, "next_id", 1)]

\* TaskManager.__init__ with _load_tasks: the store it constructs, or the
\* exception that leaves the caller without one
TaskManager(f, clock) ==
    IF ~f.exists
    THEN [exc |-> "", tasks |-> <<>>, next_id |-> 1]
    ELSE IF ~f.wellformed
    THEN [exc |-> "JSONDecodeError", tasks |-> <<>>, next_id |-> 1]
    ELSE IF "tasks" \notin DOMAIN f.data
    THEN [exc |-> "KeyError", tasks |-> <<>>, next_id |-> 1]
    ELSE IF FirstRaise(f.data["tasks"], clock) # ""
    THEN [exc |-> FirstRaise(f.data["tasks"], clock), tasks |-> <<>>, next_id |-> 1]
    ELSE [exc |-> "",
          tasks |-> [i \in 1..Len(f.data["tasks"]) |->
                        from_dict(f.data["tasks"][i], clock).value],
          next_id |-> Get(f.data, "next_id", 1)]

----------------------------------------------------------------------------
(* TaskManager                                                             *)

\* What a call on the store leaves behind: the exception raised ("" when the
\* call returned), the value returned ("True", "False", "None", or "Task" or
\* "list" with the task or the tasks returned in out), the store, the file,
\* and how many times the file was opened for writing.
Outcome(exc, value, out, ts, nid, f, w) ==
    [exc |-> exc, value |-> value, out |-> out, tasks |-> ts, next_id |-> nid,
     file |-> f, wrote |-> w]

\* add_task numbering the task by the length of the list
add_task_IdFromLength(ts, nid, f, title, description, priority, due_date, clock) ==
    LET r == Task(title, description, priority, TODO, due_date, Len(ts) + 1, clock)
    IN  IF r.exc # ""
        THEN Outcome(r.exc, "None", <<>>, ts, nid, f, 0)
        ELSE Outcome("", "Task", <<r.value>>, Append(ts, r.value), nid + 1,
                     _save_tasks(Append(ts, r.value), nid + 1), 1)

\* add_task leaving next_id as it was
add_task_KeepsNextId(ts, nid, f, title, description, priority, due_date, clock) ==
    LET r == Task(title, description, priority, TODO, due_date, nid, clock)
    IN  IF r.exc # ""
        THEN Outcome(r.exc, "None", <<>>, ts, nid, f, 0)
        ELSE Outcome("", "Task", <<r.value>>, Append(ts, r.value), nid,
                     _save_tasks(Append(ts, r.value), nid), 1)

\* TaskManager.add_task
add_task(ts, nid, f, title, description, priority, due_date, clock) ==
    LET r == Task(title, description, priority, TODO, due_date, nid, clock)
    IN  IF r.exc # ""
        THEN Outcome(r.exc, "None", <<>>, ts, nid, f, 0)
        ELSE Outcome("", "Task", <<r.value>>, Append(ts, r.value), nid + 1,
                     _save_tasks(Append(ts, r.value), nid + 1), 1)

\* the position of the task the scan of get_task stops at, 0 when it ends
\* without a match
RECURSIVE Scan(_, _, _)
Scan(ts, task_id, i) ==
    IF i > Len(ts)
    THEN 0
    ELSE IF ts[i].task_id = task_id THEN i ELSE Scan(ts, task_id, i + 1)

\* TaskManager.get_task
get_task(ts, task_id) ==
    IF Scan(ts, task_id, 1) = 0 THEN None ELSE ts[Scan(ts, task_id, 1)]

\* the field assignments with the priority assigned whether passed or not
Assign_PriorityAlways(task, title, description, priority, status, due_date, clock) ==
    [task EXCEPT
        !.title = IF title # None THEN strip(title) ELSE @,
        !.description = IF description # None THEN strip(description) ELSE @,
        !.priority = priority,
        !.status = IF status # None THEN status ELSE @,
        !.due_date = IF due_date # None THEN due_date ELSE @,
        !.updated_at = isoformat(clock)]

\* the field assignments of update_task on one task
Assign(task, title, description, priority, status, due_date, clock) ==
    [task EXCEPT
        !.title = IF title # None THEN strip(title) ELSE @,
        !.description = IF description # None THEN strip(description) ELSE @,
        !.priority = IF priority # None THEN priority ELSE @,
        !.status = IF status # None THEN status ELSE @,
        !.due_date = IF due_date # None THEN due_date ELSE @,
        !.updated_at = isoformat(clock)]

\* update_task saving before it looks the task up
update_task_SavesFirst(ts, nid, f, task_id, title, description, priority, status, due_date, clock) ==
    LET i == Scan(ts, task_id, 1)
        after == [ts EXCEPT ![i] =
                    Assign(ts[i], title, description, priority, status, due_date, clock)]
    IN  IF i = 0
        THEN Outcome("", "False", <<>>, ts, nid, _save_tasks(ts, nid), 1)
        ELSE Outcome("", "True", <<>>, after, nid, _save_tasks(after, nid), 1)

\* update_task refusing a blank title as Task.__init__ does
update_task_ChecksTitle(ts, nid, f, task_id, title, description, priority, status, due_date, clock) ==
    LET i == Scan(ts, task_id, 1)
        after == [ts EXCEPT ![i] =
                    Assign(ts[i], title, description, priority, status, due_date, clock)]
    IN  IF i = 0
        THEN Outcome("", "False", <<>>, ts, nid, f, 0)
        ELSE IF title # None /\ strip(title) = <<>>
        THEN Outcome("ValueError", "None", <<>>, ts, nid, f, 0)
        ELSE Outcome("", "True", <<>>, after, nid, _save_tasks(after, nid), 1)

\* TaskManager.update_task
update_task(ts, nid, f, task_id, title, description, priority, status, due_date, clock) ==
    LET i == Scan(ts, task_id, 1)
        after == [ts EXCEPT ![i] =
                    Assign(ts[i], title, description, priority, status, due_date, clock)]
    IN  IF i = 0
        THEN Outcome("", "False", <<>>, ts, nid, f, 0)
        ELSE Outcome("", "True", <<>>, after, nid, _save_tasks(after, nid), 1)

\* list.pop() in place of list.remove: the last object goes
Remove_Last(ts, i) == SubSeq(ts, 1, Len(ts) - 1)

\* list.remove of the object at position i
Remove(ts, i) == SubSeq(ts, 1, i - 1) \o SubSeq(ts, i + 1, Len(ts))

\* delete_task handing the identifier of the last task back to next_id
delete_task_ReusesId(ts, nid, f, task_id) ==
    LET i == Scan(ts, task_id, 1)
        back == IF task_id = nid - 1 THEN nid - 1 ELSE nid
    IN  IF i = 0
        THEN Outcome("", "False", <<>>, ts, nid, f, 0)
        ELSE Outcome("", "True", <<>>, Remove(ts, i), back, _save_tasks(Remove(ts, i), back), 1)

\* delete_task saving once before and once after the removal
delete_task_SavesTwice(ts, nid, f, task_id) ==
    LET i == Scan(ts, task_id, 1)
    IN  IF i = 0
        THEN Outcome("", "False", <<>>, ts, nid, f, 0)
        ELSE Outcome("", "True", <<>>, Remove(ts, i), nid, _save_tasks(Remove(ts, i), nid), 2)

\* TaskManager.delete_task
delete_task(ts, nid, f, task_id) ==
    LET i == Scan(ts, task_id, 1)
    IN  IF i = 0
        THEN Outcome("", "False", <<>>, ts, nid, f, 0)
        ELSE Outcome("", "True", <<>>, Remove(ts, i), nid, _save_tasks(Remove(ts, i), nid), 1)

\* list_tasks filtering the whole list by priority: the status filter is lost
list_tasks_PriorityOnly(ts, status, priority) ==
    LET StatusIs(t) == t.status = status
        PriorityIs(t) == t.priority = priority
        by_status == IF Truthy(status) THEN SelectSeq(ts, StatusIs) ELSE ts
    IN  IF Truthy(priority) THEN SelectSeq(ts, PriorityIs) ELSE by_status

\* TaskManager.list_tasks
list_tasks(ts, status, priority) ==
    LET StatusIs(t) == t.status = status
        PriorityIs(t) == t.priority = priority
        by_status == IF Truthy(status) THEN SelectSeq(ts, StatusIs) ELSE ts
    IN  IF Truthy(priority) THEN SelectSeq(by_status, PriorityIs) ELSE by_status

\* get_overdue_tasks keeping every task that is not completed
get_overdue_tasks_NotCompleted(ts, clock) ==
    LET Open(t) == t.status # COMPLETED
    IN  SelectSeq(ts, Open)

\* TaskManager.get_overdue_tasks
get_overdue_tasks(ts, clock) ==
    LET Overdue(t) == is_overdue(t, clock)
    IN  SelectSeq(ts, Overdue)

\* the ways the write of _save_tasks fails: open() refuses, or the write
\* stops after open() has truncated the file; "" is a write that works
Faults == {"", "open", "write"}

\* _save_tasks swallowing the IOError after logging it
IOError_Swallowed(o, f, fault) ==
    IF fault = "" \/ o.wrote = 0
    THEN o
    ELSE Outcome("", o.value, o.out, o.tasks, o.next_id,
                 IF fault = "open" THEN f ELSE Garbage,
                 IF fault = "open" THEN 0 ELSE 1)

\* The except IOError branch of _save_tasks.  o is what the call leaves when
\* the write works and f is the file before the call.  The save is the last
\* statement of add_task, update_task and delete_task that changes anything,
\* so when it raises the store is as the call has made it, and the file is
\* as it was or holds what the failed write left.
IOError(o, f, fault) ==
    IF fault = "" \/ o.wrote = 0
    THEN o
    ELSE Outcome("OSError", "None", <<>>, o.tasks, o.next_id,
                 IF fault = "open" THEN f ELSE Garbage,
                 IF fault = "open" THEN 0 ELSE 1)

----------------------------------------------------------------------------
(* The calls made on the store                                             *)

TaskIds == 1..MaxAdds

AddTitles == {<<>>, <<" ", "\t">>, <<" ", "a", "\t">>}
AddDescriptions == {<<" ", "d">>}
AddPriorities == {MEDIUM}
AddDueDates == {None}

\* the keyword arguments of an update_task call; an argument left out is None
Args(title, description, priority, status, due_date) ==
    [title |-> title, description |-> description, priority |-> priority,
     status |-> status, due_date |-> due_date]

UpdateArgs ==
    { Args(None, None, None, None, None),
      Args(<<"b", " ">>, None, HIGH, None, isoformat(0)),
      Args(<<" ">>, <<"\t", "e">>, None, COMPLETED, None) }

\* no invocation runs beside the one that holds the store
NoProcs == <<>>

\* the record of a call: its name, the exception it raised, the value it returned
Call(op, o) == [op |-> op, exc |-> o.exc, value |-> o.value, out |-> o.out]

Init ==
    /\ tasks = <<>>
    /\ next_id = 1
    /\ file = Absent
    /\ now = 0
    /\ ret = [op |-> "TaskManager", exc |-> "", value |-> "None", out |-> <<>>]
    /\ wrote = 0
    /\ nadds = 0
    /\ procs = NoProcs

\* manager.add_task(title, description, priority, due_date)
AddTask(title, description, priority, due_date) ==
    LET o == add_task(tasks, next_id, file, title, description, priority, due_date, now)
    IN  /\ nadds < MaxAdds
        /\ tasks' = o.tasks
        /\ next_id' = o.next_id
        /\ file' = o.file
        /\ wrote' = o.wrote
        /\ ret' = Call("add_task", o)
        /\ nadds' = IF o.exc = "" THEN nadds + 1 ELSE nadds
        /\ UNCHANGED <<now, procs>>

\* manager.update_task(task_id, title, description, priority, status, due_date)
UpdateTask(task_id, a) ==
    LET o == update_task(tasks, next_id, file, task_id, a.title, a.description,
                         a.priority, a.status, a.due_date, now)
    IN  /\ tasks' = o.tasks
        /\ next_id' = o.next_id
        /\ file' = o.file
        /\ wrote' = o.wrote
        /\ ret' = Call("update_task", o)
        /\ UNCHANGED <<now, nadds, procs>>

\* manager.delete_task(task_id)
DeleteTask(task_id) ==
    LET o == delete_task(tasks, next_id, file, task_id)
    IN  /\ tasks' = o.tasks
        /\ next_id' = o.next_id
        /\ file' = o.file
        /\ wrote' = o.wrote
        /\ ret' = Call("delete_task", o)
        /\ UNCHANGED <<now, nadds, procs>>

\* manager = TaskManager(storage_path): the next invocation constructs its
\* store from the file; when the constructor raises, no new store exists
Construct ==
    LET m == TaskManager(file, now)
    IN  /\ tasks' = IF m.exc = "" THEN m.tasks ELSE tasks
        /\ next_id' = IF m.exc = "" THEN m.next_id ELSE next_id
        /\ ret' = [op |-> "TaskManager", exc |-> m.exc, value |-> "None", out |-> <<>>]
        /\ wrote' = 0
        /\ UNCHANGED <<file, now, nadds, procs>>

\* time passes between two calls
Tick ==
    /\ now < MaxClock
    /\ now' = now + 1
    /\ UNCHANGED <<tasks, next_id, file, ret, wrote, nadds, procs>>

Next ==
    \/ \E title \in AddTitles, description \in AddDescriptions,
          priority \in AddPriorities, due_date \in AddDueDates :
            AddTask(title, description, priority, due_date)
    \/ \E task_id \in TaskIds, a \in UpdateArgs : UpdateTask(task_id, a)
    \/ \E task_id \in TaskIds : DeleteTask(task_id)
    \/ Construct
    \/ Tick

Spec == Init /\ [][Next]_vars

----------------------------------------------------------------------------
(* The queries, on stores as add_task and update_task leave them           *)

\* the task add_task(title "a", priority, due_date) creates with the next_id
\* task_id, after update_task(task_id, status=status)
Made(task_id, priority, status, due_date) ==
    Assign(Task(<<"a">>, <<>>, priority, TODO, due_date, task_id, 0).value,
           None, None, None, status, None, 0)

\* a store of n tasks added in a row, task i made with kinds[i]
Store(n, kinds) ==
    [i \in 1..n |-> Made(i, kinds[i][1], kinds[i][2], kinds[i][3])]

Quiet == [op |-> "TaskManager", exc |-> "", value |-> "None", out |-> <<>>]

\* the file the calls that made the store Store(n, kinds) left
Saved(n, kinds) == IF n = 0 THEN Absent ELSE _save_tasks(Store(n, kinds), n + 1)

InitStore(n, kinds, f) ==
    /\ tasks = Store(n, kinds)
    /\ next_id = n + 1
    /\ file = f
    /\ now = 0
    /\ ret = Quiet
    /\ wrote = 0
    /\ nadds = n
    /\ procs = NoProcs

\* the kinds of n tasks added with the defaults and not updated since
Plain(n) == [i \in 1..n |-> <<MEDIUM, None, None>>]

ListPriorities == {MEDIUM, HIGH}
ListStatuses == {None, COMPLETED, CANCELLED}
StatusFilters == {None, <<>>, TODO, COMPLETED, IN_PROGRESS}
PriorityFilters == {None, <<>>, MEDIUM, HIGH, LOW}

InitList ==
    \E n \in 0..MaxAdds :
        \E kinds \in [1..n -> ListPriorities \X ListStatuses \X {None}] :
            InitStore(n, kinds, Saved(n, kinds))

\* manager.list_tasks(status, priority)
ListTasks(status, priority) ==
    /\ ret' = [op |-> "list_tasks", exc |-> "", value |-> "list",
               out |-> list_tasks(tasks, status, priority)]
    /\ wrote' = 0
    /\ UNCHANGED <<tasks, next_id, file, now, nadds, procs>>

NextList == \E status \in StatusFilters, priority \in PriorityFilters :
                ListTasks(status, priority)

SpecList == InitList /\ [][NextList]_vars

\* the due dates of the tasks asked whether they are overdue: none, the empty
\* string, a string that is no date, local times, times with an offset
DueDates ==
    {None, <<>>, <<"s", "o", "o", "n">>, <<"T">>}
        \cup {isoformat(n) : n \in Times}
        \cup {isoformat(n) \o <<"Z">> : n \in Times}
OverdueStatuses == {None, IN_PROGRESS, COMPLETED, CANCELLED}

InitTask ==
    \E status \in OverdueStatuses, due_date \in DueDates :
        InitStore(1, <<<<MEDIUM, status, due_date>>>>,
                  Saved(1, <<<<MEDIUM, status, due_date>>>>))

\* manager.tasks[i].is_overdue()
IsOverdue(i) ==
    /\ ret' = [op |-> "is_overdue", exc |-> "",
               value |-> IF is_overdue(tasks[i], now) THEN "True" ELSE "False",
               out |-> <<>>]
    /\ wrote' = 0
    /\ UNCHANGED <<tasks, next_id, file, now, nadds, procs>>

NextTask ==
    \/ \E i \in DOMAIN tasks : IsOverdue(i)
    \/ Tick

SpecTask == InitTask /\ [][NextTask]_vars

\* the files a store is constructed on: none, one that is no JSON, documents
\* lacking a key, a document with a blank title, and saved stores
LoadFiles ==
    {Absent, Garbage,
     Json([next_id |-> 2]),
     Json([tasks |-> <<>>]),
     Json([tasks |-> <<[task_id |-> 1, title |-> <<" ", "c">>]>>, next_id |-> 2]),
     Json([tasks |-> <<[task_id |-> 1, title |-> <<" ">>]>>, next_id |-> 2])}
        \cup {_save_tasks(Store(1, <<<<p, None, None>>>>), n) :
                p \in ListPriorities, n \in 2..(MaxAdds + 1)}

InitLoad ==
    \E n \in 0..MaxAdds, f \in LoadFiles :
        \E kinds \in [1..n -> ListPriorities \X ListStatuses \X {None}] :
            InitStore(n, kinds, f)

NextLoad == Construct

SpecLoad == InitLoad /\ [][NextLoad]_vars

\* the stores asked for their overdue tasks: each task open or completed,
\* with no due date, a local one, one with an offset, or one that is no date
OverdueKinds ==
    {MEDIUM} \X {None, COMPLETED}
        \X {None, isoformat(0), isoformat(0) \o <<"Z">>, <<"s", "o", "o", "n">>}

InitOverdue ==
    \E n \in 0..MaxAdds :
        \E kinds \in [1..n -> OverdueKinds] :
            InitStore(n, kinds, Saved(n, kinds))

\* manager.get_overdue_tasks()
GetOverdueTasks ==
    /\ ret' = [op |-> "get_overdue_tasks", exc |-> "", value |-> "list",
               out |-> get_overdue_tasks(tasks, now)]
    /\ wrote' = 0
    /\ UNCHANGED <<tasks, next_id, file, now, nadds, procs>>

NextOverdue == GetOverdueTasks \/ Tick

SpecOverdue == InitOverdue /\ [][NextOverdue]_vars

----------------------------------------------------------------------------
(* The command-line interface of src/src/cli.py: one invocation is one     *)
(* process, which constructs the store from the file, runs one command     *)
(* and exits.                                                              *)

\* sys.exit(1) in the except branches of a command; a command that returns
\* exits with 0
exit_code_Zero(exc) == "0"

exit_code(exc) == IF exc = "" THEN "0" ELSE "1"

\* the files an invocation finds: none, one that is no JSON, one with a
\* blank title, and the files earlier invocations saved
CliKinds == {MEDIUM} \X {None} \X {None, isoformat(0)}
CliFiles ==
    {Absent, Garbage,
     Json([tasks |-> <<[task_id |-> 1, title |-> <<>>]>>, next_id |-> 2])}
        \cup UNION {{Saved(n, kinds) : kinds \in [1..n -> CliKinds]} : n \in 0..MaxAdds}
CliTitles == {<<" ">>, <<" ", "a">>}

InitCli ==
    \E f \in CliFiles :
        /\ tasks = <<>>
        /\ next_id = 1
        /\ file = f
        /\ now = 0
        /\ ret = Quiet
        /\ wrote = 0
        /\ nadds = 0
        /\ procs = NoProcs

\* no command has run yet in this process
Started == ret = Quiet

\* The try block of a command: m is what TaskManager() gave and o what the
\* call on the store left.  When the constructor raised there is no store
\* and no call; an exception of either is caught by the except branch.
Command(name, m, o) ==
    LET exc == IF m.exc # "" THEN m.exc ELSE o.exc
    IN  /\ Started
        /\ tasks' = IF m.exc = "" THEN o.tasks ELSE tasks
        /\ next_id' = IF m.exc = "" THEN o.next_id ELSE next_id
        /\ file' = IF m.exc = "" THEN o.file ELSE file
        /\ wrote' = IF m.exc = "" THEN o.wrote ELSE 0
        /\ ret' = [op |-> name, exc |-> exc, value |-> exit_code(exc),
                   out |-> IF m.exc = "" THEN o.out ELSE <<>>]
        /\ UNCHANGED <<now, nadds, procs>>

\* add TITLE
CliAdd(title, fault) ==
    LET m == TaskManager(file, now)
    IN  Command("add", m,
                IOError(add_task(m.tasks, m.next_id, file, title, <<>>, MEDIUM, None, now),
                        file, fault))

\* list [--status S] [--priority P] [--overdue]
CliList(status, priority, overdue) ==
    LET m == TaskManager(file, now)
    IN  Command("list", m,
                Outcome("", "list",
                        IF overdue
                        THEN get_overdue_tasks(m.tasks, now)
                        ELSE list_tasks(m.tasks, status, priority),
                        m.tasks, m.next_id, file, 0))

\* show TASK_ID
CliShow(task_id) ==
    LET m == TaskManager(file, now)
        i == Scan(m.tasks, task_id, 1)
    IN  Command("show", m,
                Outcome("", IF i = 0 THEN "None" ELSE "Task",
                        IF i = 0 THEN <<>> ELSE <<m.tasks[i]>>,
                        m.tasks, m.next_id, file, 0))

\* update TASK_ID [--status S] [--priority P] [--title T] [--description D]
\* [--due-date DATE]
CliUpdate(task_id, a, fault) ==
    LET m == TaskManager(file, now)
    IN  Command("update", m,
                IOError(update_task(m.tasks, m.next_id, file, task_id, a.title,
                                    a.description, a.priority, a.status, a.due_date, now),
                        file, fault))

\* delete TASK_ID --yes
CliDelete(task_id, fault) ==
    LET m == TaskManager(file, now)
    IN  Command("delete", m,
                IOError(delete_task(m.tasks, m.next_id, file, task_id), file, fault))

\* complete TASK_ID
CliComplete(task_id, fault) ==
    LET m == TaskManager(file, now)
    IN  Command("complete", m,
                IOError(update_task(m.tasks, m.next_id, file, task_id, None, None,
                                    None, COMPLETED, None, now),
                        file, fault))

NextCli ==
    \/ \E title \in CliTitles, fault \in Faults : CliAdd(title, fault)
    \/ \E status \in {None, COMPLETED}, priority \in {None, HIGH}, overdue \in BOOLEAN :
            CliList(status, priority, overdue)
    \/ \E task_id \in TaskIds : CliShow(task_id)
    \/ \E task_id \in TaskIds, a \in UpdateArgs, fault \in Faults :
            CliUpdate(task_id, a, fault)
    \/ \E task_id \in TaskIds, fault \in Faults : CliDelete(task_id, fault)
    \/ \E task_id \in TaskIds, fault \in Faults : CliComplete(task_id, fault)
    \/ Tick

SpecCli == InitCli /\ [][NextCli]_vars

----------------------------------------------------------------------------
(* Two invocations on one file.  Each is a process with a store of its     *)
(* own: it constructs the store from the file, makes one call on it, which *)
(* saves, and exits.  Nothing locks the file.  Here tasks and next_id are  *)
(* the store that saved the file before either process started.            *)

Procs == {1, 2}

\* the one call a process makes
RaceCalls ==
    { [op |-> "add_task", task_id |-> 0, a |-> Args(<<"b">>, None, None, None, None)],
      [op |-> "add_task", task_id |-> 0, a |-> Args(<<"c">>, None, None, None, None)],
      [op |-> "update_task", task_id |-> 1, a |-> Args(None, None, None, COMPLETED, None)],
      [op |-> "update_task", task_id |-> 1, a |-> Args(None, None, HIGH, None, None)],
      [op |-> "delete_task", task_id |-> 1, a |-> Args(None, None, None, None, None)] }

\* the call made on the store (ts, nid) of a process
Apply(ts, nid, f, call, clock) ==
    CASE call.op = "add_task" ->
            add_task(ts, nid, f, call.a.title, <<>>, MEDIUM, None, clock)
      [] call.op = "update_task" ->
            update_task(ts, nid, f, call.task_id, call.a.title, call.a.description,
                        call.a.priority, call.a.status, call.a.due_date, clock)
      [] call.op = "delete_task" ->
            delete_task(ts, nid, f, call.task_id)

\* the saves made to the file so far
Saves == Cardinality({p \in Procs : procs[p].turn > 0})

InitRace ==
    \E n \in 0..MaxAdds :
        /\ tasks = Store(n, Plain(n))
        /\ next_id = n + 1
        /\ file = Saved(n, Plain(n))
        /\ now = 0
        /\ ret = Quiet
        /\ wrote = 0
        /\ nadds = n
        /\ procs = [p \in Procs |->
                        [pc |-> "start", tasks |-> <<>>, next_id |-> 1, seen |-> 0,
                         turn |-> 0, call |-> "", exc |-> "", value |-> "None"]]

\* manager = TaskManager() in process p: seen is the number of saves the
\* file it reads has had
Load(p) ==
    LET m == TaskManager(file, now)
    IN  /\ procs[p].pc = "start"
        /\ procs' = [procs EXCEPT ![p] =
                        [@ EXCEPT !.pc = IF m.exc = "" THEN "loaded" ELSE "done",
                                  !.tasks = m.tasks,
                                  !.next_id = m.next_id,
                                  !.seen = Saves,
                                  !.exc = m.exc]]
        /\ UNCHANGED <<tasks, next_id, file, now, ret, wrote, nadds>>

\* the call of process p re-reading the file before it changes the store
Mutate_Reloads(p, call) ==
    LET m == TaskManager(file, now)
        o == Apply(m.tasks, m.next_id, file, call, now)
    IN  /\ procs[p].pc = "loaded"
        /\ file' = o.file
        /\ procs' = [procs EXCEPT ![p] =
                        [@ EXCEPT !.pc = "done",
                                  !.tasks = o.tasks,
                                  !.next_id = o.next_id,
                                  !.turn = IF o.wrote > 0 THEN Saves + 1 ELSE 0,
                                  !.call = call,
                                  !.exc = o.exc,
                                  !.value = o.value]]
        /\ UNCHANGED <<tasks, next_id, now, ret, wrote, nadds>>

\* the call of process p on its store, with the save that ends it: turn is
\* the place of its save among the saves
Mutate(p, call) ==
    LET o == Apply(procs[p].tasks, procs[p].next_id, file, call, now)
    IN  /\ procs[p].pc = "loaded"
        /\ file' = o.file
        /\ procs' = [procs EXCEPT ![p] =
                        [@ EXCEPT !.pc = "done",
                                  !.tasks = o.tasks,
                                  !.next_id = o.next_id,
                                  !.turn = IF o.wrote > 0 THEN Saves + 1 ELSE 0,
                                  !.call = call,
                                  !.exc = o.exc,
                                  !.value = o.value]]
        /\ UNCHANGED <<tasks, next_id, now, ret, wrote, nadds>>

NextRace ==
    \/ \E p \in Procs : Load(p)
    \/ \E p \in Procs, call \in RaceCalls : Mutate(p, call)
    \/ Tick

SpecRace == InitRace /\ [][NextRace]_vars

\* update_task calls that pass a title: empty, all whitespace, or neither
TitleUpdates ==
    {Args(title, None, None, None, None) :
        title \in {<<>>, <<"\t", " ">>, <<" ", "b">>}}

InitTitle ==
    \E n \in 0..MaxAdds :
        \E kinds \in [1..n -> ListPriorities \X {None} \X {None}] :
            InitStore(n, kinds, Saved(n, kinds))

NextTitle ==
    \/ \E task_id \in TaskIds, a \in TitleUpdates : UpdateTask(task_id, a)
    \/ Tick

SpecTitle == InitTitle /\ [][NextTitle]_vars

\* The calls on a disk that refuses every write.  The IOError leaves
\* _save_tasks and the call; no later call is made on the store.
DiskFaults == Faults \ {""}

Running == ret.exc # "OSError"

\* manager.add_task(title), the write failing
AddTaskIO(title, fault) ==
    LET o == IOError(add_task(tasks, next_id, file, title, <<>>, MEDIUM, None, now),
                     file, fault)
    IN  /\ Running
        /\ tasks' = o.tasks
        /\ next_id' = o.next_id
        /\ file' = o.file
        /\ wrote' = o.wrote
        /\ ret' = Call("add_task", o)
        /\ UNCHANGED <<now, nadds, procs>>

\* manager.update_task(task_id, ...), the write failing
UpdateTaskIO(task_id, a, fault) ==
    LET o == IOError(update_task(tasks, next_id, file, task_id, a.title, a.description,
                                 a.priority, a.status, a.due_date, now),
                     file, fault)
    IN  /\ Running
        /\ tasks' = o.tasks
        /\ next_id' = o.next_id
        /\ file' = o.file
        /\ wrote' = o.wrote
        /\ ret' = Call("update_task", o)
        /\ UNCHANGED <<now, nadds, procs>>

\* manager.delete_task(task_id), the write failing
DeleteTaskIO(task_id, fault) ==
    LET o == IOError(delete_task(tasks, next_id, file, task_id), file, fault)
    IN  /\ Running
        /\ tasks' = o.tasks
        /\ next_id' = o.next_id
        /\ file' = o.file
        /\ wrote' = o.wrote
        /\ ret' = Call("delete_task", o)
        /\ UNCHANGED <<now, nadds, procs>>

NextIO ==
    \/ \E title \in CliTitles, fault \in DiskFaults : AddTaskIO(title, fault)
    \/ \E task_id \in TaskIds, a \in UpdateArgs, fault \in DiskFaults :
            UpdateTaskIO(task_id, a, fault)
    \/ \E task_id \in TaskIds, fault \in DiskFaults : DeleteTaskIO(task_id, fault)
    \/ Tick

SpecIO == InitTitle /\ [][NextIO]_vars

\* the titles and descriptions a Task is constructed with: every string of
\* letters and blanks up to MaxLen, and strings with tabs
TitleChars == {" ", "a", "b"}
NewTitles ==
    UNION {[1..k -> TitleChars] : k \in 0..MaxLen}
        \cup {<<"\t">>, <<"\t", "a", " ">>}
NewDescriptions == {<<>>, <<" ", "\t">>, <<" ", "d">>, <<"d", " ", "e", "\t">>}

\* Task(title, description); the record of the call keeps the arguments
NewTask(title, description) ==
    LET r == Task(title, description, MEDIUM, TODO, None, None, now)
    IN  /\ ret' = [op |-> "Task", exc |-> r.exc,
                   value |-> IF r.exc = "" THEN "Task" ELSE "None",
                   out |-> IF r.exc = "" THEN <<r.value>> ELSE <<>>,
                   title |-> title, description |-> description]
        /\ wrote' = 0
        /\ UNCHANGED <<tasks, next_id, file, now, nadds, procs>>

NextNewTask ==
    \/ \E title \in NewTitles, description \in NewDescriptions :
            NewTask(title, description)
    \/ Tick

SpecNewTask == Init /\ [][NextNewTask]_vars

----------------------------------------------------------------------------
(* Vocabulary of the properties                                            *)

\* some task of the list ts has the identifier task_id
HasTask(ts, task_id) == \E i \in DOMAIN ts : ts[i].task_id = task_id

\* s is empty or all whitespace
Blank(s) == \A i \in DOMAIN s : s[i] \in Whitespace

\* r is s without its leading and trailing whitespace
IsTrimOf(r, s) ==
    /\ r = <<>> \/ (r[1] \notin Whitespace /\ r[Len(r)] \notin Whitespace)
    /\ \E i \in 0..Len(s) :
        /\ i + Len(r) <= Len(s)
        /\ r = SubSeq(s, i + 1, i + Len(r))
        /\ Blank(SubSeq(s, 1, i))
        /\ Blank(SubSeq(s, i + Len(r) + 1, Len(s)))

\* the last call was a mutation that returned successfully
Mutated ==
    \/ ret.op = "add_task" /\ ret.value = "Task"
    \/ ret.op \in {"update_task", "delete_task"} /\ ret.value = "True"

\* no store can be constructed on the file f: it is no JSON document, has no
\* task list, or lists a task without a title or with a blank one
Broken(f) ==
    /\ f.exists
    /\ \/ ~f.wellformed
       \/ "tasks" \notin DOMAIN f.data
       \/ \E i \in DOMAIN f.data["tasks"] :
            \/ "title" \notin DOMAIN f.data["tasks"][i]
            \/ Blank(f.data["tasks"][i]["title"])

\* the document of the file f lists a task with the identifier task_id
Lists(f, task_id) ==
    /\ f.exists
    /\ \E i \in DOMAIN f.data["tasks"] : f.data["tasks"][i]["task_id"] = task_id

\* a store constructed now on the file f is the store (ts, nid)
LoadsAs(f, ts, nid) ==
    LET m == TaskManager(f, now)
    IN  /\ m.exc = ""
        /\ m.next_id = nid
        /\ Len(m.tasks) = Len(ts)
        /\ \A i \in DOMAIN ts : m.tasks[i] = ts[i]

----------------------------------------------------------------------------
(* C1: from an empty store, the k-th add_task call that returns a task     *)
(* returns one whose task_id is k, whatever updates, deletions and         *)
(* re-constructions of the store from the file came in between; so an      *)
(* identifier is never handed out twice.                                   *)

C1_KthAddReturnsIdK ==
    (ret.op = "add_task" /\ ret.value = "Task") => ret.out[1].task_id = nadds

\* the second add, made after the first task was deleted, has just returned
C1_Witness ==
    /\ ret.op = "add_task" /\ ret.value = "Task"
    /\ nadds = 2
    /\ Len(tasks) = 1

(* C2: every reachable store, saved with _save_tasks and loaded again by a *)
(* new TaskManager on the same file, loads without error into an equal     *)
(* tasks list (all eight fields, same order) and the same next_id.         *)

C2_RoundTrip == LoadsAs(_save_tasks(tasks, next_id), tasks, next_id)

(* C3: after every add_task, update_task or delete_task that returns       *)
(* successfully the file holds exactly the store, and a TaskManager         *)
(* constructed afterwards on the file observes that store.                 *)

C3_FileHoldsStore ==
    Mutated => (file = _save_tasks(tasks, next_id) /\ LoadsAs(file, tasks, next_id))

(* C4: update_task with a task_id no task has returns False, leaves the    *)
(* tasks, their order and next_id as they were and does not write the      *)
(* file, whatever field arguments it is given.                             *)

C4_UpdateMissingIsNoOp ==
    [][\A task_id \in TaskIds, a \in UpdateArgs :
          (ret'.op = "update_task" /\ UpdateTask(task_id, a) /\ ~HasTask(tasks, task_id)) =>
              /\ ret'.exc = "" /\ ret'.value = "False"
              /\ tasks' = tasks
              /\ next_id' = next_id
              /\ file' = file
              /\ wrote' = 0]_vars

\* an update with field arguments has just returned False on a store that
\* holds another task and has a file
C4_Witness ==
    /\ ret.op = "update_task" /\ ret.value = "False"
    /\ tasks # <<>>
    /\ file.exists

(* C5: update_task on an existing task_id returns True; on that task the   *)
(* fields passed as non-None take the passed value (title and description  *)
(* trimmed) and updated_at the current time; its task_id, its created_at   *)
(* and the fields passed as None, every other task, the positions of the   *)
(* tasks and next_id stay as they were.                                    *)

C5_UpdateFrame ==
    [][\A task_id \in TaskIds, a \in UpdateArgs :
          (ret'.op = "update_task" /\ UpdateTask(task_id, a) /\ HasTask(tasks, task_id)) =>
              /\ ret'.exc = "" /\ ret'.value = "True"
              /\ next_id' = next_id
              /\ Len(tasks') = Len(tasks)
              /\ \A i \in DOMAIN tasks :
                    IF tasks[i].task_id # task_id
                    THEN tasks'[i] = tasks[i]
                    ELSE /\ tasks'[i].task_id = task_id
                         /\ tasks'[i].created_at = tasks[i].created_at
                         /\ tasks'[i].updated_at = isoformat(now)
                         /\ IF a.title = None
                            THEN tasks'[i].title = tasks[i].title
                            ELSE IsTrimOf(tasks'[i].title, a.title)
                         /\ IF a.description = None
                            THEN tasks'[i].description = tasks[i].description
                            ELSE IsTrimOf(tasks'[i].description, a.description)
                         /\ tasks'[i].priority =
                                IF a.priority = None THEN tasks[i].priority ELSE a.priority
                         /\ tasks'[i].status =
                                IF a.status = None THEN tasks[i].status ELSE a.status
                         /\ tasks'[i].due_date =
                                IF a.due_date = None THEN tasks[i].due_date ELSE a.due_date]_vars

\* an update has just returned True on a store of two tasks: the first task
\* carries a new trimmed title and a later updated_at, the second is as added
C5_Witness ==
    /\ ret.op = "update_task" /\ ret.value = "True"
    /\ Len(tasks) = 2
    /\ tasks[1].title = <<"b">>
    /\ tasks[1].updated_at # tasks[1].created_at
    /\ tasks[2].title = <<"a">>
    /\ tasks[2].updated_at = tasks[2].created_at

(* C6: delete_task with a task_id no task has returns False and changes    *)
(* nothing (tasks, next_id, file); otherwise it returns True, removes the   *)
(* task with that id and no other, keeps the order of the rest, leaves      *)
(* next_id as it was, and get_task of that id then finds nothing.           *)

C7_AddBlankTitleRaises ==
    [][\A title \in AddTitles, description \in AddDescriptions,
          priority \in AddPriorities, due_date \in AddDueDates :
          (ret'.op = "add_task" /\ Blank(title)
                /\ AddTask(title, description, priority, due_date)) =>
              /\ ret'.exc = "ValueError"
              /\ tasks' = tasks
              /\ next_id' = next_id
              /\ file' = file
              /\ wrote' = 0]_vars

\* an add has just raised ValueError on a store that holds a task
C7_Witness ==
    /\ ret.op = "add_task" /\ ret.exc = "ValueError"
    /\ tasks # <<>>
    /\ next_id = 2

(* C8, as amended: list_tasks(status, priority) returns, in list order,    *)
(* exactly the tasks whose status equals the status filter when that       *)
(* filter is a non-empty string and whose priority equals the priority     *)
(* filter when that filter is a non-empty string; a filter that is None or *)
(* the empty string counts as omitted; the store is never changed.         *)

\* the tasks of ts that match the filters, Given telling which filters count
Matching(ts, status, priority, Given(_)) ==
    LET Match(t) == /\ Given(status) => t.status = status
                    /\ Given(priority) => t.priority = priority
    IN  SelectSeq(ts, Match)

C8_ListNonEmptyFilters ==
    [][\A status \in StatusFilters, priority \in PriorityFilters :
          ListTasks(status, priority) =>
              /\ LET NonEmpty(x) == x # None /\ x # <<>>
                 IN  ret'.out = Matching(tasks, status, priority, NonEmpty)
              /\ UNCHANGED <<tasks, next_id, file>>
              /\ wrote' = 0]_vars

\* a call has just returned one task of a store of two that differ in status
C8_Witness ==
    /\ ret.op = "list_tasks"
    /\ Len(tasks) = 2
    /\ tasks[1].status # tasks[2].status
    /\ ret.out = <<tasks[2]>>

(* C8, as stated: a filter counts as provided whenever it is not None.     *)

C8_ListProvidedFilters ==
    [][\A status \in StatusFilters, priority \in PriorityFilters :
          ListTasks(status, priority) =>
              /\ LET Provided(x) == x # None
                 IN  ret'.out = Matching(tasks, status, priority, Provided)
              /\ UNCHANGED <<tasks, next_id, file>>
              /\ wrote' = 0]_vars

(* C9: is_overdue() returns False when due_date is absent, when it cannot  *)
(* be parsed, or when status is completed, and raises nothing; otherwise   *)
(* it returns True exactly when the parsed due date is strictly before the *)
(* current time, whatever the status (cancelled, todo, in_progress).       *)

\* the string s denotes the time n, in local time or with an offset
Denotes(s, n) == s = isoformat(n) \/ s = isoformat(n) \o <<"Z">>

C9_OverdueIffPastDue ==
    [][\A i \in DOMAIN tasks :
          IsOverdue(i) =>
              /\ ret'.exc = ""
              /\ ret'.value = "True" <=>
                    /\ tasks[i].due_date # None
                    /\ tasks[i].status # COMPLETED
                    /\ \E n \in Times : Denotes(tasks[i].due_date, n) /\ n < now]_vars

(* C10: constructing a TaskManager when the file does not exist yields an  *)
(* empty tasks list and next_id = 1; when the file exists and is not       *)
(* well-formed JSON the constructor raises json.JSONDecodeError, no store  *)
(* is constructed in its place, and the file is left as it was.            *)

C10_LoadAbsentOrMalformed ==
    [][Construct =>
          /\ ~file.exists =>
                ret'.exc = "" /\ tasks' = <<>> /\ next_id' = 1
          /\ (file.exists /\ ~file.wellformed) =>
                ret'.exc = "JSONDecodeError" /\ tasks' = tasks /\ next_id' = next_id
          /\ file' = file
          /\ wrote' = 0]_vars

\* a constructor has just raised JSONDecodeError on a file that is no JSON,
\* and the caller still holds its earlier store of two tasks
C10_Witness ==
    /\ ret.op = "TaskManager" /\ ret.exc = "JSONDecodeError"
    /\ file = Garbage
    /\ Len(tasks) = 2

----------------------------------------------------------------------------
(* C11: in every store reachable from the empty one by add, update, delete *)
(* and re-construction from the file, no two tasks of the list have the    *)
(* same task_id; so get_task(id) returns the one task with that id when    *)
(* there is one, and None when there is none.                              *)

C11_UniqueTaskIds ==
    /\ \A i, j \in DOMAIN tasks : tasks[i].task_id = tasks[j].task_id => i = j
    /\ \A task_id \in TaskIds :
        IF HasTask(tasks, task_id)
        THEN /\ get_task(tasks, task_id).task_id = task_id
             /\ Cardinality({i \in DOMAIN tasks : tasks[i].task_id = task_id}) = 1
        ELSE get_task(tasks, task_id) = None

\* a store of two tasks, re-constructed from the file after an update
C11_Witness ==
    /\ ret.op = "TaskManager" /\ ret.exc = ""
    /\ Len(tasks) = 2
    /\ \E i \in DOMAIN tasks : tasks[i].updated_at # tasks[i].created_at
    /\ get_task(tasks, 2) = tasks[2]

----------------------------------------------------------------------------
(* C12: Task(title, description) returns a task for every title that is    *)
(* not empty once trimmed, storing the title and the description without   *)
(* their leading and trailing whitespace and created_at equal to           *)
(* updated_at; it raises ValueError for every title that is empty or all   *)
(* whitespace.                                                             *)

C12_TaskConstruction ==
    ret.op = "Task" =>
        IF Blank(ret.title)
        THEN ret.exc = "ValueError" /\ ret.out = <<>>
        ELSE /\ ret.exc = ""
             /\ IsTrimOf(ret.out[1].title, ret.title)
             /\ ret.out[1].title # <<>>
             /\ IsTrimOf(ret.out[1].description, ret.description)
             /\ ret.out[1].created_at = ret.out[1].updated_at
             /\ ret.out[1].created_at \in {isoformat(n) : n \in 0..now}

\* a task was constructed, after the clock moved, from a title and a
\* description that lost the whitespace around them
C12_Witness ==
    /\ ret.op = "Task" /\ ret.exc = ""
    /\ ret.title = <<" ", "a", " ">>
    /\ ret.description = <<"d", " ", "e", "\t">>
    /\ ret.out[1].title = <<"a">>
    /\ ret.out[1].description = <<"d", " ", "e">>
    /\ ret.out[1].created_at = isoformat(1)

----------------------------------------------------------------------------
(* C13: get_overdue_tasks returns exactly the tasks of the list for which  *)
(* is_overdue() is true, each once and in list order, and changes neither  *)
(* the list, next_id nor the file.                                         *)

C13_OverdueTasks ==
    [][GetOverdueTasks =>
        /\ \A i \in DOMAIN tasks :
              is_overdue(tasks[i], now) <=>
                  \E j \in DOMAIN ret'.out : ret'.out[j] = tasks[i]
        /\ Len(ret'.out) =
              Cardinality({i \in DOMAIN tasks : is_overdue(tasks[i], now)})
        /\ \A j, k \in DOMAIN ret'.out :
              j < k => ret'.out[j].task_id < ret'.out[k].task_id
        /\ UNCHANGED <<tasks, next_id, file>>
        /\ wrote' = 0]_vars

\* of two tasks due in the past the completed first one is left out and the
\* open second one is returned
C13_Witness ==
    /\ ret.op = "get_overdue_tasks"
    /\ Len(tasks) = 2
    /\ tasks[1].due_date = isoformat(0) /\ tasks[1].status = COMPLETED
    /\ ret.out = <<tasks[2]>>

----------------------------------------------------------------------------
(* C14: every command of the CLI (add, list, show, update, delete,         *)
(* complete) exits with code 0 when its operation succeeds, and with a     *)
(* non-zero code when the title fails validation, when the store cannot be *)
(* constructed from the file, or when the operation raises another error   *)
(* (here: the write of the file fails).                                    *)

C14_ExitCodes ==
    [][/\ \A title \in CliTitles, fault \in Faults :
            CliAdd(title, fault) =>
                ret'.value = IF Broken(file) \/ Blank(title) \/ fault # ""
                             THEN "1" ELSE "0"
       /\ \A status \in {None, COMPLETED}, priority \in {None, HIGH}, overdue \in BOOLEAN :
            CliList(status, priority, overdue) =>
                ret'.value = IF Broken(file) THEN "1" ELSE "0"
       /\ \A task_id \in TaskIds :
            CliShow(task_id) =>
                /\ Broken(file) => ret'.value = "1"
                /\ ~Broken(file) /\ Lists(file, task_id) => ret'.value = "0"
       /\ \A task_id \in TaskIds, fault \in Faults :
            (\/ \E a \in UpdateArgs : CliUpdate(task_id, a, fault)
             \/ CliDelete(task_id, fault)
             \/ CliComplete(task_id, fault)) =>
                /\ Broken(file) => ret'.value = "1"
                /\ ~Broken(file) /\ Lists(file, task_id) =>
                        ret'.value = IF fault # "" THEN "1" ELSE "0"]_vars

\* an update ended with exit code 1 because the write failed, on a file
\* that lists the task
C14_Witness ==
    /\ ret.op = "update" /\ ret.value = "1" /\ ret.exc = "OSError"
    /\ file # Garbage /\ Lists(file, 1)
    /\ tasks # <<>>

----------------------------------------------------------------------------
(* C15: two invocations run side by side on one file.  Whenever both have  *)
(* loaded before either saved and both have saved, the file holds the      *)
(* store of the later writer and nothing else: it is the file the later    *)
(* writer's call alone makes of the store both loaded, a task the earlier  *)
(* writer added is not in it, and neither call raised or failed.  Such an  *)
(* interleaving exists: C15_Witness is reached.                            *)

\* e saved first and w second, and both had loaded before either saved
Raced(e, w) ==
    /\ procs[e].pc = "done" /\ procs[w].pc = "done"
    /\ procs[e].seen = 0 /\ procs[w].seen = 0
    /\ procs[e].turn = 1 /\ procs[w].turn = 2

C15_LaterWriterWins ==
    \A e, w \in Procs :
        Raced(e, w) =>
            /\ file = _save_tasks(procs[w].tasks, procs[w].next_id)
            /\ \E clock \in Times :
                    file = Apply(tasks, next_id, Saved(Len(tasks), Plain(Len(tasks))),
                                 procs[w].call, clock).file
            /\ (procs[e].call.op = "add_task" /\ procs[w].call # procs[e].call) =>
                    \A i \in DOMAIN file.data["tasks"] :
                        file.data["tasks"][i]["title"] # procs[e].call.a.title
            /\ procs[e].exc = "" /\ procs[w].exc = ""
            /\ procs[e].value \in {"Task", "True"}
            /\ procs[w].value \in {"Task", "True"}

\* both processes loaded the one-task file, the first added "b" and saved,
\* the second added "c" and saved: both got task_id 2 and the file lists
\* the original task and "c"
C15_Witness ==
    /\ Raced(1, 2)
    /\ procs[1].call.op = "add_task" /\ procs[1].call.a.title = <<"b">>
    /\ procs[2].call.op = "add_task" /\ procs[2].call.a.title = <<"c">>
    /\ Len(tasks) = 1 /\ Len(file.data["tasks"]) = 2
    /\ procs[1].tasks[2].task_id = 2 /\ procs[2].tasks[2].task_id = 2
    /\ file.data["tasks"][2]["title"] = <<"c">>

----------------------------------------------------------------------------
(* C16: update_task does not repeat the title check of Task.__init__: on   *)
(* an existing task_id, with a title that is empty or all whitespace, it   *)
(* returns True, leaves the empty string as the title of the task, and     *)
(* writes a file that holds the empty title.                               *)

C16_UpdateBlankTitle ==
    [][\A task_id \in TaskIds, a \in TitleUpdates :
          (UpdateTask(task_id, a) /\ HasTask(tasks, task_id) /\ Blank(a.title)) =>
              /\ ret'.exc = "" /\ ret'.value = "True"
              /\ wrote' = 1
              /\ file' = _save_tasks(tasks', next_id')
              /\ \A i \in DOMAIN tasks :
                    tasks[i].task_id = task_id =>
                        /\ tasks'[i].title = <<>>
                        /\ file'.data["tasks"][i]["title"] = <<>>]_vars

\* the second of two tasks has been given a blank title: store and file
\* hold the empty title, the first task keeps its own
C16_Witness ==
    /\ ret.op = "update_task" /\ ret.value = "True"
    /\ Len(tasks) = 2
    /\ tasks[1].title = <<"a">> /\ tasks[2].title = <<>>
    /\ file.data["tasks"][2]["title"] = <<>>

----------------------------------------------------------------------------
(* C17: when the write of the file fails in _save_tasks during add_task,   *)
(* update_task or delete_task, the call raises the error and the change it *)
(* made to the store stays: the task appended and next_id incremented, the *)
(* fields overwritten, or the task removed; the file is not written with   *)
(* the change (it is as it was, or it is what the failed write left).      *)

C17_SaveFailureKeepsChange ==
    [][\A fault \in DiskFaults :
        /\ \A title \in CliTitles :
              (AddTaskIO(title, fault) /\ ~Blank(title)) =>
                  /\ ret'.exc = "OSError"
                  /\ Len(tasks') = Len(tasks) + 1
                  /\ SubSeq(tasks', 1, Len(tasks)) = tasks
                  /\ tasks'[Len(tasks')].task_id = next_id
                  /\ IsTrimOf(tasks'[Len(tasks')].title, title)
                  /\ next_id' = next_id + 1
                  /\ file' = file \/ file' = Garbage
        /\ \A task_id \in TaskIds, a \in UpdateArgs :
              (UpdateTaskIO(task_id, a, fault) /\ HasTask(tasks, task_id)) =>
                  /\ ret'.exc = "OSError"
                  /\ next_id' = next_id
                  /\ Len(tasks') = Len(tasks)
                  /\ \A i \in DOMAIN tasks :
                        IF tasks[i].task_id # task_id
                        THEN tasks'[i] = tasks[i]
                        ELSE /\ tasks'[i].updated_at = isoformat(now)
                             /\ a.title # None => IsTrimOf(tasks'[i].title, a.title)
                             /\ a.priority # None => tasks'[i].priority = a.priority
                             /\ a.status # None => tasks'[i].status = a.status
                             /\ a.due_date # None => tasks'[i].due_date = a.due_date
                  /\ file' = file \/ file' = Garbage
        /\ \A task_id \in TaskIds :
              (DeleteTaskIO(task_id, fault) /\ HasTask(tasks, task_id)) =>
                  /\ ret'.exc = "OSError"
                  /\ next_id' = next_id
                  /\ Len(tasks') = Len(tasks) - 1
                  /\ ~HasTask(tasks', task_id)
                  /\ file' = file \/ file' = Garbage]_vars

\* an add raised the error of a refused open(): the store has the second
\* task and next_id 3, the file still holds one task and next_id 2
C17_Witness ==
    /\ ret.op = "add_task" /\ ret.exc = "OSError"
    /\ Len(tasks) = 2 /\ next_id = 3
    /\ file.wellformed
    /\ Len(file.data["tasks"]) = 1 /\ file.data["next_id"] = 2

----------------------------------------------------------------------------
(* C18: an invocation of the CLI constructs the store from the file, makes *)
(* one call, and writes the file only if the call changed the store.  The  *)
(* commands list and show (list_tasks, get_overdue_tasks, get_task) leave  *)
(* the file as it was and the store as it was loaded.  An add, update,     *)
(* delete or complete that succeeds writes the file exactly once, and the  *)
(* file it leaves holds the store after the change; one that finds no      *)
(* store, no task or no valid title does not write.                        *)

\* what a command that does not write leaves
NoWrite == wrote' = 0 /\ file' = file

C18_WritesOnlyAfterMutation ==
    [][/\ (\/ \E status \in {None, COMPLETED}, priority \in {None, HIGH}, overdue \in BOOLEAN :
                CliList(status, priority, overdue)
           \/ \E task_id \in TaskIds : CliShow(task_id)) =>
                /\ NoWrite
                /\ ~Broken(file) => LoadsAs(file, tasks', next_id')
       /\ \A title \in CliTitles, fault \in Faults :
            CliAdd(title, fault) =>
                IF Broken(file) \/ Blank(title)
                THEN NoWrite
                ELSE fault = "" =>
                     /\ wrote' = 1
                     /\ file' = _save_tasks(tasks', next_id')
                     /\ Len(file'.data["tasks"]) = Len(tasks')
                     /\ next_id' = TaskManager(file, now).next_id + 1
       /\ \A task_id \in TaskIds, fault \in Faults :
            (\/ \E a \in UpdateArgs : CliUpdate(task_id, a, fault)
             \/ CliComplete(task_id, fault)) =>
                IF Broken(file) \/ ~Lists(file, task_id)
                THEN NoWrite
                ELSE fault = "" =>
                     /\ wrote' = 1
                     /\ file' = _save_tasks(tasks', next_id')
                     /\ \E i \in DOMAIN tasks' :
                            /\ tasks'[i].task_id = task_id
                            /\ tasks'[i].updated_at = isoformat(now)
                            /\ file'.data["tasks"][i]["updated_at"] = isoformat(now)
       /\ \A task_id \in TaskIds, fault \in Faults :
            CliDelete(task_id, fault) =>
                IF Broken(file) \/ ~Lists(file, task_id)
                THEN NoWrite
                ELSE fault = "" =>
                     /\ wrote' = 1
                     /\ file' = _save_tasks(tasks', next_id')
                     /\ ~HasTask(tasks', task_id)
                     /\ ~Lists(file', task_id)]_vars

\* complete wrote the file once: the task is completed in the store and in
\* the file, at a later time than it was created
C18_Witness ==
    /\ ret.op = "complete" /\ ret.value = "0"
    /\ wrote = 1
    /\ Len(tasks) = 2
    /\ tasks[2].status = COMPLETED /\ tasks[2].updated_at = isoformat(1)
    /\ file.data["tasks"][2]["status"] = COMPLETED

----------------------------------------------------------------------------
(* C19: in every store reachable from the empty one by add_task,           *)
(* update_task, delete_task and re-construction from the file, next_id is  *)
(* at least 1 and greater than the task_id of every task, the task_ids     *)
(* increase strictly along the list, and no step makes next_id smaller.    *)

NextIdAboveIds ==
    /\ next_id >= 1
    /\ \A i \in DOMAIN tasks : tasks[i].task_id < next_id
    /\ \A i, j \in DOMAIN tasks : i < j => tasks[i].task_id < tasks[j].task_id

C19_NextIdMonotone ==
    NextIdAboveIds /\ [][NextIdAboveIds' /\ next_id' >= next_id]_vars

\* a store re-constructed from the file after the first of two tasks was
\* deleted: the one task left has task_id 2 and next_id is still 3
C19_Witness ==
    /\ ret.op = "TaskManager" /\ ret.exc = ""
    /\ Len(tasks) = 1
    /\ tasks[1].task_id = 2
    /\ next_id = 3

====
